---- MODULE Spec2Model ----
(***************************************************************************)
(* The block-update engine of GTMatrix (src/GTMatrix_Update.c): the block  *)
(* router GTM_updateBlock, the single-destination updater                  *)
(* GTM_updateBlockToProcess and the batch epoch controller                  *)
(* (GTM_startBatchUpdate, GTM_execBatchUpdate, GTM_stopBatchUpdate).        *)
(*                                                                         *)
(* One process's matrix handle is modelled together with the remote memory *)
(* windows of every rank.  Each public call is one action; the transport   *)
(* calls it makes (lock, accumulate, unlock, datatype commit/free) are     *)
(* recorded, in order, in `events`.                                        *)
(* SpecUpd calls the single-destination updater directly; SpecAcc lets    *)
(* several processes accumulate concurrently, one transport call or one   *)
(* element transfer per step.                                              *)
(***************************************************************************)
EXTENDS Integers, Sequences, FiniteSets, TLC

\* ------------------------------------------------------------------ bounds
\* Largest number of rows/columns of a matrix drawn by SpecCall.
MaxDim == 3
\* Largest number of update calls (put, accumulate, add request) in one
\* behaviour of Spec; the epoch calls are not counted.
MaxCalls == 2
\* Largest source leading dimension a caller passes.
MaxLd == 4
\* Number of processes that accumulate concurrently in SpecAcc.
NProcs == 2

\* --------------------------------------------------------------- constants
\* Cached-shape ceiling (GTMatrix_Typedef.h, not part of src/).
MPI_DT_SB_DIM_MAX == 2
\* Element size in bytes (the test creates the matrix with MPI_DOUBLE, 8).
unit_size == 8

MPI_SUM == "MPI_SUM"
MPI_REPLACE == "MPI_REPLACE"
BLOCKING_ACCESS == "BLOCKING_ACCESS"
BATCH_ACCESS == "BATCH_ACCESS"
MPI_LOCK_SHARED == "MPI_LOCK_SHARED"

VARIABLES
    nrows, ncols,             \* gt_mat->nrows, gt_mat->ncols
    r_blocks, c_blocks,       \* gt_mat->r_blocks, gt_mat->c_blocks
    r_displs, c_displs,       \* displacement tables, indexed 0..blocks
    ld_local,                 \* gt_mat->ld_local
    my_rank,                  \* gt_mat->my_rank
    is_batch_updating,        \* gt_mat->is_batch_updating
    is_batch_getting,         \* gt_mat->is_batch_getting (written by the get side only)
    req_vec,                  \* gt_mat->req_vec[rank]: sequence of entries
    win,                      \* the window: win[rank][offset]
    events,                   \* transport calls of the most recent call
    routed,                   \* sub-blocks dispatched by the most recent call
    aborted,                  \* assert(need_to_fetch == 1) failed
    ub,                       \* a transfer was framed by a junk descriptor
    call,                     \* the most recent call; a: the latest update arguments
    enq,                      \* enq[rank]: entries pushed in the open epoch, not yet drained
    budget,                   \* update calls left in this behaviour
    procs,                    \* SpecAcc: each concurrent process's position in its call
    win0                      \* the window contents before the first call

cfgvars == <<nrows, ncols, r_blocks, c_blocks, r_displs, c_displs, ld_local, my_rank>>
accvars == <<procs, win0>>
vars == <<nrows, ncols, r_blocks, c_blocks, r_displs, c_displs, ld_local, my_rank,
          is_batch_updating, is_batch_getting, req_vec, win, events, routed,
          aborted, ub, call, enq, budget, procs, win0>>

\* ----------------------------------------------------------------- helpers
MaxOf(S) == CHOOSE x \in S : \A y \in S : y <= x
MaxI(a, b) == IF a >= b THEN a ELSE b
MinI(a, b) == IF a <= b THEN a ELSE b

comm_size == r_blocks * c_blocks
Ranks == 0 .. (comm_size - 1)

\* Strictly increasing tables d[0..n] with d[0] = 0 and d[n] = dim.
DisplTables(dim) ==
    UNION { { d \in [0 .. n -> 0 .. dim] :
                /\ d[0] = 0
                /\ d[n] = dim
                /\ \A i \in 0 .. (n - 1) : d[i] < d[i + 1] } : n \in 1 .. dim }

NBlocks(d) == Cardinality(DOMAIN d) - 1

\* Widest column block of a table: the local leading dimension.
MaxBlkLen(d) == MaxOf({ d[i + 1] - d[i] : i \in 0 .. (NBlocks(d) - 1) })

\* The caller's source buffer: the element with index e holds SrcVal(e).
SrcVal(e) == e + 1

\* ------------------------------------------------------ transport (MPI) model
\* MPI_Type_vector(count, blocklength, stride, gt_mat->datatype): a strided 2D
\* view.  `kind` tells where the descriptor lives: a slot of the sb_stride or
\* sb_nostride cache, or built for one call ("ephemeral").
TypeVector(count, blocklength, stride, kind) ==
    [count |-> count, blocklength |-> blocklength, stride |-> stride, kind |-> kind]

\* Number of base elements a descriptor transfers.
TypeSize(dt) ==
    IF dt.count > 0 /\ dt.blocklength > 0 THEN dt.count * dt.blocklength ELSE 0

\* Type map: the element offset of the k-th base element (k from 0), row by row.
TypeMap(dt, k) == ((k \div dt.blocklength) * dt.stride) + (k % dt.blocklength)

\* The descriptor caches built at matrix creation (spec section 4.2): slot
\* id = (rows - 1) * MPI_DT_SB_DIM_MAX + (cols - 1).
SbSlots == 0 .. (MPI_DT_SB_DIM_MAX * MPI_DT_SB_DIM_MAX - 1)

sb_stride(id) ==
    TypeVector((id \div MPI_DT_SB_DIM_MAX) + 1, (id % MPI_DT_SB_DIM_MAX) + 1,
               ld_local, "sb_stride")

sb_nostride(id) ==
    TypeVector((id \div MPI_DT_SB_DIM_MAX) + 1, (id % MPI_DT_SB_DIM_MAX) + 1,
               (id % MPI_DT_SB_DIM_MAX) + 1, "sb_nostride")

\* What a read outside the cache arrays yields (undefined behaviour): no
\* descriptor of the program; what a transfer framed by it does is chosen
\* where the windows are updated.
JunkType == TypeVector(0, 0, 0, "junk")

NoType == TypeVector(0, 0, 0, "none")

\* One transport call.  Unused fields hold 0 / NoType.
Ev(type, rank, op, pos, ptr, odt, tdt) ==
    [type |-> type, rank |-> rank, op |-> op, pos |-> pos, ptr |-> ptr,
     odt |-> odt, tdt |-> tdt]

EvLock(rank, mode) == Ev("lock", rank, mode, 0, 0, NoType, NoType)
EvUnlock(rank) == Ev("unlock", rank, "", 0, 0, NoType, NoType)
EvCommit(dt) == Ev("commit", 0, "", 0, 0, dt, NoType)
EvFree(dt) == Ev("free", 0, "", 0, 0, dt, NoType)
\* MPI_Accumulate(src_ptr, 1, odt, rank, dst_pos, 1, tdt, op, mpi_win)
EvAccumulate(ptr, odt, rank, pos, tdt, op) == Ev("acc", rank, op, pos, ptr, odt, tdt)

\* The source element index the k-th transferred element is read from: the
\* origin address is ptr (bytes) plus the type-map offset times the extent of
\* the element datatype.
OriginIndex(ev, k) == (ev.ptr + TypeMap(ev.odt, k) * unit_size) \div unit_size

\* The window offset (in elements) the k-th transferred element is written to.
TargetOffset(ev, k) == ev.pos + TypeMap(ev.tdt, k)

\* Elements one accumulate transfers (origin and target must agree in size).
EvSize(ev) == MinI(TypeSize(ev.odt), TypeSize(ev.tdt))

\* MPI_REPLACE overwrites, MPI_SUM adds.
Combine(op, old, new) == IF op = MPI_SUM THEN old + new ELSE new

\* The element transfers to rank d among the first n transport calls:
\* <<i, k>> is element k of the accumulate evs[i].
ElemsTo(evs, n, d) ==
    UNION { { <<i, k>> : k \in 0 .. (EvSize(evs[i]) - 1) } :
            i \in { j \in 1 .. n : evs[j].type = "acc" /\ evs[j].rank = d } }

\* Transfers take effect in issue order, the elements of one accumulate in
\* type-map order.
Before(g, h) == g[1] < h[1] \/ (g[1] = h[1] /\ g[2] <= h[2])

LastHit(H) == CHOOSE h \in H : \A g \in H : Before(g, h)

\* One cell after element transfer h is combined into it.
ApplyHit(old, evs, h) ==
    Combine(evs[h[1]].op, old, SrcVal(OriginIndex(evs[h[1]], h[2])))

\* One cell after the element transfers H, all to that cell.
RECURSIVE ApplyHits(_, _, _)
ApplyHits(old, evs, H) ==
    IF H = {} THEN old
    ELSE ApplyHit(ApplyHits(old, evs, H \ {LastHit(H)}), evs, LastHit(H))

\* One rank's window after the element transfers E to that rank (an element
\* framed outside the window is not stored).
ApplyToRank(wd, evs, E) ==
    [off \in DOMAIN wd |->
        ApplyHits(wd[off], evs, { h \in E : TargetOffset(evs[h[1]], h[2]) = off })]

\* The windows after the first n transport calls of evs (every lock epoch of
\* a call has ended when the call returns).
ApplyEvents(w, evs, n) ==
    [d \in DOMAIN w |-> ApplyToRank(w[d], evs, ElemsTo(evs, n, d))]

\* ------------------------------------------------- single-destination updater
\* Lines 51-52: the offset of the block in the owner's local buffer.
DstPos_ColumnMajor(row_start, dst_row_start, dst_blk_ld, col_start, dst_col_start) ==
    (col_start - dst_col_start) * dst_blk_ld + (row_start - dst_row_start)

DstPos(row_start, dst_row_start, dst_blk_ld, col_start, dst_col_start) ==
    (row_start - dst_row_start) * dst_blk_ld + (col_start - dst_col_start)

\* Line 59: the cache slot of a block shape.
BlockDtId_Swapped(row_num, col_num) == (col_num - 1) * MPI_DT_SB_DIM_MAX + (row_num - 1)

BlockDtId(row_num, col_num) == (row_num - 1) * MPI_DT_SB_DIM_MAX + (col_num - 1)

\* Line 80: the destination descriptor built for a block above the ceiling.
EphemeralDstType_SrcStride(row_num, col_num, dst_blk_ld, src_buf_ld) ==
    TypeVector(row_num, col_num, src_buf_ld, "ephemeral")

EphemeralDstType(row_num, col_num, dst_blk_ld, src_buf_ld) ==
    TypeVector(row_num, col_num, dst_blk_ld, "ephemeral")

\* The transport calls of GTM_updateBlockToProcess, in order.
GTM_updateBlockToProcess(dst_rank, op, row_start, row_num, col_start, col_num, src_buf, src_buf_ld) ==
    LET row_end == row_start + row_num
        col_end == col_start + col_num
        dst_rowblk == dst_rank \div c_blocks
        dst_colblk == dst_rank % c_blocks
        dst_blk_ld == ld_local
        dst_row_start == r_displs[dst_rowblk]
        dst_col_start == c_displs[dst_colblk]
        dst_row_end == r_displs[dst_rowblk + 1]
        dst_col_end == c_displs[dst_colblk + 1]
        dst_pos == DstPos(row_start, dst_row_start, dst_blk_ld, col_start, dst_col_start)
        block_dt_id == BlockDtId(row_num, col_num)
        dst_dt == IF block_dt_id \in SbSlots THEN sb_stride(block_dt_id) ELSE JunkType
        rcv_dt_ns == IF block_dt_id \in SbSlots THEN sb_nostride(block_dt_id) ELSE JunkType
        rcv_dt == TypeVector(row_num, col_num, src_buf_ld, "ephemeral")
        big_dst_dt == EphemeralDstType(row_num, col_num, dst_blk_ld, src_buf_ld)
    IN  IF \/ row_start < dst_row_start
           \/ col_start < dst_col_start
           \/ row_end > dst_row_end
           \/ col_end > dst_col_end
           \/ row_num * col_num = 0
        THEN << >>
        ELSE IF row_num <= MPI_DT_SB_DIM_MAX /\ col_num <= MPI_DT_SB_DIM_MAX
        THEN IF col_num = src_buf_ld
             THEN << EvAccumulate(src_buf, rcv_dt_ns, dst_rank, dst_pos, dst_dt, op) >>
             ELSE IF ld_local = src_buf_ld
             THEN << EvAccumulate(src_buf, dst_dt, dst_rank, dst_pos, dst_dt, op) >>
             ELSE << EvCommit(rcv_dt),
                     EvAccumulate(src_buf, rcv_dt, dst_rank, dst_pos, dst_dt, op),
                     EvFree(rcv_dt) >>
        ELSE << EvCommit(big_dst_dt),
                EvCommit(rcv_dt),
                EvAccumulate(src_buf, rcv_dt, dst_rank, dst_pos, big_dst_dt, op),
                EvFree(big_dst_dt),
                EvFree(rcv_dt) >>

\* ----------------------------------------------------------- request queues
\* One queued request (GTM_pushToReqVector's arguments).
ReqEntry(op, row_start, row_num, col_start, col_num, src_buf, src_buf_ld) ==
    [op |-> op, row_start |-> row_start, row_num |-> row_num,
     col_start |-> col_start, col_num |-> col_num,
     src_buf |-> src_buf, src_buf_ld |-> src_buf_ld]

\* GTM_pushToReqVector: append at the end of one destination's queue.
GTM_pushToReqVector(vec, op, row_start, row_num, col_start, col_num, src_buf, src_buf_ld) ==
    Append(vec, ReqEntry(op, row_start, row_num, col_start, col_num, src_buf, src_buf_ld))

\* GTM_resetReqVector: truncate to empty.
GTM_resetReqVector(vec) == << >>

\* --------------------------------------------------------------- block router
\* utils.h getRectIntersection on inclusive ranges: rectangle 0 is
\* [xs0,xe0] x [ys0,ye0], rectangle 1 is [xs1,xe1] x [ys1,ye1].
getRectIntersection(xs0, xe0, ys0, ye0, xs1, xe1, ys1, ye1) ==
    LET ixs == MaxI(xs0, xs1)
        ixe == MinI(xe0, xe1)
        iys == MaxI(ys0, ys1)
        iye == MinI(ye0, ye1)
    IN  [intersection |-> IF ixs <= ixe /\ iys <= iye THEN 1 ELSE 0,
         ixs |-> ixs, ixe |-> ixe, iys |-> iys, iye |-> iye]

\* The block indices i of a table whose interval [displs[i], displs[i+1])
\* holds x: the loop at lines 119-132 assigns the last one, none if empty.
BlkMatches(displs, blocks, x) ==
    { i \in 0 .. (blocks - 1) : displs[i] <= x /\ x < displs[i + 1] }

\* The value of a block index after the search loop: the last match, or the
\* uninitialised value g when no iteration assigned it.
BlkIndex(displs, blocks, x, g) ==
    IF BlkMatches(displs, blocks, x) = {} THEN g
    ELSE MaxOf(BlkMatches(displs, blocks, x))

\* Values an uninitialised block index may hold (kept inside the tables).
RowGarbage == 0 .. (r_blocks - 1)
ColGarbage == 0 .. (c_blocks - 1)

\* The arguments of one GTM_updateBlock call.
UpdateArgs(op, row_start, row_num, col_start, col_num, src_buf, src_buf_ld, access_mode) ==
    [op |-> op, row_start |-> row_start, row_num |-> row_num,
     col_start |-> col_start, col_num |-> col_num,
     src_buf |-> src_buf, src_buf_ld |-> src_buf_ld, access_mode |-> access_mode]

\* Lines 109-113: the rectangle is rejected.
Rejected(a) ==
    \/ a.row_start < 0
    \/ a.col_start < 0
    \/ a.row_start + a.row_num > nrows
    \/ a.col_start + a.col_num > ncols
    \/ a.row_num * a.col_num = 0

\* Lines 138-139 and 142-143: the inclusive row and column range of a block.
Dst_r_s(blk_r) == r_displs[blk_r]

Dst_r_e_Inclusive(blk_r) == r_displs[blk_r + 1]

Dst_r_e(blk_r) == r_displs[blk_r + 1] - 1

Dst_c_s(blk_c) == c_displs[blk_c]

Dst_c_e(blk_c) == c_displs[blk_c + 1] - 1

\* Line 144: the rank that owns block pair (blk_r, blk_c).
Dst_rank_Transposed(blk_r, blk_c) == blk_c * c_blocks + blk_r

Dst_rank(blk_r, blk_c) == blk_r * c_blocks + blk_c

\* Lines 153-156: the sub-block's address in the caller's buffer (bytes).
Blk_ptr_Transposed(src_buf, row_dist, col_dist, src_buf_ld) ==
    src_buf + (col_dist * src_buf_ld + row_dist) * unit_size

Blk_ptr(src_buf, row_dist, col_dist, src_buf_ld) ==
    src_buf + (row_dist * src_buf_ld + col_dist) * unit_size

\* What one iteration hands on (lines 145-156), given the intersection x.
SubBlockOf(a, blk_r, blk_c, x) ==
    [dst_rank |-> Dst_rank(blk_r, blk_c),
     need_to_fetch |-> x.intersection,
     op |-> a.op,
     row_start |-> x.ixs, row_num |-> x.ixe - x.ixs + 1,
     col_start |-> x.iys, col_num |-> x.iye - x.iys + 1,
     src_buf |-> Blk_ptr(a.src_buf, x.ixs - a.row_start, x.iys - a.col_start, a.src_buf_ld),
     src_buf_ld |-> a.src_buf_ld]

\* The sub-block of block pair (blk_r, blk_c), lines 138-156.
SubBlock(a, blk_r, blk_c) ==
    SubBlockOf(a, blk_r, blk_c,
        getRectIntersection(Dst_r_s(blk_r), Dst_r_e(blk_r), Dst_c_s(blk_c), Dst_c_e(blk_c),
                            a.row_start, a.row_start + a.row_num - 1,
                            a.col_start, a.col_start + a.col_num - 1))

\* The outcome of a call: transport calls, queues, dispatched sub-blocks, abort.
Outcome(evs, vecs, subs, ab) ==
    [events |-> evs, req_vec |-> vecs, routed |-> subs, aborted |-> ab]

\* One iteration of the inner loop (lines 140-176) on top of outcome o, b
\* being the sub-block of the iteration.
DispatchSub_PushToCaller(o, a, b) ==
        IF o.aborted THEN o
        ELSE IF b.need_to_fetch # 1 THEN [o EXCEPT !.aborted = TRUE]
        ELSE IF a.access_mode = BLOCKING_ACCESS
        THEN [o EXCEPT
                !.events = o.events
                    \o << EvLock(b.dst_rank, MPI_LOCK_SHARED) >>
                    \o GTM_updateBlockToProcess(b.dst_rank, b.op, b.row_start, b.row_num,
                            b.col_start, b.col_num, b.src_buf, b.src_buf_ld)
                    \o << EvUnlock(b.dst_rank) >>,
                !.routed = Append(o.routed, b)]
        ELSE IF a.access_mode = BATCH_ACCESS
        THEN [o EXCEPT
                !.req_vec[my_rank] =
                    GTM_pushToReqVector(o.req_vec[my_rank], b.op, b.row_start, b.row_num,
                            b.col_start, b.col_num, b.src_buf, b.src_buf_ld),
                !.routed = Append(o.routed, b)]
        ELSE o

DispatchSub_NoUnlock(o, a, b) ==
        IF o.aborted THEN o
        ELSE IF b.need_to_fetch # 1 THEN [o EXCEPT !.aborted = TRUE]
        ELSE IF a.access_mode = BLOCKING_ACCESS
        THEN [o EXCEPT
                !.events = o.events
                    \o << EvLock(b.dst_rank, MPI_LOCK_SHARED) >>
                    \o GTM_updateBlockToProcess(b.dst_rank, b.op, b.row_start, b.row_num,
                            b.col_start, b.col_num, b.src_buf, b.src_buf_ld),
                !.routed = Append(o.routed, b)]
        ELSE IF a.access_mode = BATCH_ACCESS
        THEN [o EXCEPT
                !.req_vec[b.dst_rank] =
                    GTM_pushToReqVector(o.req_vec[b.dst_rank], b.op, b.row_start, b.row_num,
                            b.col_start, b.col_num, b.src_buf, b.src_buf_ld),
                !.routed = Append(o.routed, b)]
        ELSE o

DispatchSub(o, a, b) ==
        IF o.aborted THEN o
        ELSE IF b.need_to_fetch # 1 THEN [o EXCEPT !.aborted = TRUE]
        ELSE IF a.access_mode = BLOCKING_ACCESS
        THEN [o EXCEPT
                !.events = o.events
                    \o << EvLock(b.dst_rank, MPI_LOCK_SHARED) >>
                    \o GTM_updateBlockToProcess(b.dst_rank, b.op, b.row_start, b.row_num,
                            b.col_start, b.col_num, b.src_buf, b.src_buf_ld)
                    \o << EvUnlock(b.dst_rank) >>,
                !.routed = Append(o.routed, b)]
        ELSE IF a.access_mode = BATCH_ACCESS
        THEN [o EXCEPT
                !.req_vec[b.dst_rank] =
                    GTM_pushToReqVector(o.req_vec[b.dst_rank], b.op, b.row_start, b.row_num,
                            b.col_start, b.col_num, b.src_buf, b.src_buf_ld),
                !.routed = Append(o.routed, b)]
        ELSE o

Dispatch(o, a, blk_r, blk_c) == DispatchSub(o, a, SubBlock(a, blk_r, blk_c))

\* The first k iterations of the double loop over s_blk_r..e_blk_r and
\* s_blk_c..e_blk_c (row blocks outermost).
RECURSIVE RouteLoop(_, _, _, _, _, _, _)
RouteLoop(o, a, s_blk_r, e_blk_r, s_blk_c, e_blk_c, k) ==
    LET nc == e_blk_c - s_blk_c + 1
    IN  IF k = 0 THEN o
        ELSE Dispatch(RouteLoop(o, a, s_blk_r, e_blk_r, s_blk_c, e_blk_c, k - 1),
                      a, s_blk_r + ((k - 1) \div nc), s_blk_c + ((k - 1) % nc))

\* GTM_updateBlock on queues vecs.  g holds the values of the four block
\* indices where the search loops leave them unassigned.
GTM_updateBlock(vecs, a, g) ==
    LET row_end == a.row_start + a.row_num - 1
        col_end == a.col_start + a.col_num - 1
        s_blk_r == BlkIndex(r_displs, r_blocks, a.row_start, g.s_blk_r)
        e_blk_r == BlkIndex(r_displs, r_blocks, row_end, g.e_blk_r)
        s_blk_c == BlkIndex(c_displs, c_blocks, a.col_start, g.s_blk_c)
        e_blk_c == BlkIndex(c_displs, c_blocks, col_end, g.e_blk_c)
        nr == e_blk_r - s_blk_r + 1
        nc == e_blk_c - s_blk_c + 1
        o == Outcome(<< >>, vecs, << >>, FALSE)
    IN  IF Rejected(a) THEN o
        ELSE IF nr <= 0 \/ nc <= 0 THEN o
        ELSE RouteLoop(o, a, s_blk_r, e_blk_r, s_blk_c, e_blk_c, nr * nc)

\* The values the four block indices may hold where the search loops leave
\* them unassigned (one fixed value where the loops assign them).
Garbage(a) ==
    LET row_end == a.row_start + a.row_num - 1
        col_end == a.col_start + a.col_num - 1
        pick(displs, blocks, x, G) ==
            IF Rejected(a) \/ BlkMatches(displs, blocks, x) # {} THEN {0} ELSE G
    IN  [s_blk_r : pick(r_displs, r_blocks, a.row_start, RowGarbage),
         e_blk_r : pick(r_displs, r_blocks, row_end, RowGarbage),
         s_blk_c : pick(c_displs, c_blocks, a.col_start, ColGarbage),
         e_blk_c : pick(c_displs, c_blocks, col_end, ColGarbage)]

\* ------------------------------------------------------ batch epoch controller
\* Lines 247-260: replay the first i entries of one destination's queue.
RECURSIVE Replay(_, _, _)
Replay(dst_rank, vec, i) ==
    IF i = 0 THEN << >>
    ELSE Replay(dst_rank, vec, i - 1)
         \o GTM_updateBlockToProcess(dst_rank, vec[i].op, vec[i].row_start, vec[i].row_num,
                vec[i].col_start, vec[i].col_num, vec[i].src_buf, vec[i].src_buf_ld)

\* The entries replayed, tagged with their destination.
Replayed(dst_rank, vec) ==
    [i \in 1 .. Len(vec) |->
        [dst_rank |-> dst_rank, need_to_fetch |-> 1, op |-> vec[i].op,
         row_start |-> vec[i].row_start, row_num |-> vec[i].row_num,
         col_start |-> vec[i].col_start, col_num |-> vec[i].col_num,
         src_buf |-> vec[i].src_buf, src_buf_ld |-> vec[i].src_buf_ld]]

\* One iteration of the loop at lines 239-265 for destination dst_rank.
Drain_NoUnlock(o, dst_rank) ==
    LET vec == o.req_vec[dst_rank]
    IN  [o EXCEPT
            !.events = IF Len(vec) > 0
                       THEN o.events
                            \o << EvLock(dst_rank, MPI_LOCK_SHARED) >>
                            \o Replay(dst_rank, vec, Len(vec))
                       ELSE o.events,
            !.routed = o.routed \o Replayed(dst_rank, vec),
            !.req_vec[dst_rank] = GTM_resetReqVector(vec)]

Drain(o, dst_rank) ==
    LET vec == o.req_vec[dst_rank]
    IN  [o EXCEPT
            !.events = IF Len(vec) > 0
                       THEN o.events
                            \o << EvLock(dst_rank, MPI_LOCK_SHARED) >>
                            \o Replay(dst_rank, vec, Len(vec))
                            \o << EvUnlock(dst_rank) >>
                       ELSE o.events,
            !.routed = o.routed \o Replayed(dst_rank, vec),
            !.req_vec[dst_rank] = GTM_resetReqVector(vec)]

\* The first k iterations: _dst_rank = my_rank, my_rank + 1, ...
RECURSIVE DrainLoop(_, _)
DrainLoop_FromZero(o, k) ==
    IF k = 0 THEN o
    ELSE Drain(DrainLoop(o, k - 1), (k - 1) % comm_size)

DrainLoop(o, k) ==
    IF k = 0 THEN o
    ELSE Drain(DrainLoop(o, k - 1), (my_rank + k - 1) % comm_size)

\* GTM_execBatchUpdate on flag upd and queues vecs.
GTM_execBatchUpdate_Unguarded(upd, vecs) ==
    DrainLoop(Outcome(<< >>, vecs, << >>, FALSE), comm_size)

GTM_execBatchUpdate(upd, vecs) ==
    IF upd = 0 THEN Outcome(<< >>, vecs, << >>, FALSE)
    ELSE DrainLoop(Outcome(<< >>, vecs, << >>, FALSE), comm_size)

\* ------------------------------------------------------------- initial states
\* The handle after GTM_createGTMatrix: a partition of the matrix by strictly
\* increasing tables, one rank per block pair, flags clear, queues empty,
\* windows zeroed.
NoArgs == UpdateArgs("", 0, 0, 0, 0, 0, 0, "")

CallRec(fn, a, upd) == [fn |-> fn, a |-> a, was_updating |-> upd]

Last(d) == d[NBlocks(d)]

\* A process outside any call.
Procs == 1 .. NProcs
IdleProc == [pc |-> "idle", todo |-> << >>, held |-> {}, inflight |-> {}, did |-> << >>]

InitHandleFill(RowTables, ColTables, Fills) ==
    /\ r_displs \in RowTables
    /\ c_displs \in ColTables
    /\ (Last(r_displs) > MaxDim) = (Last(c_displs) > MaxDim)
    /\ nrows = Last(r_displs)
    /\ ncols = Last(c_displs)
    /\ r_blocks = NBlocks(r_displs)
    /\ c_blocks = NBlocks(c_displs)
    /\ ld_local = MaxBlkLen(c_displs)
    /\ is_batch_updating = 0
    /\ is_batch_getting = 0
    /\ req_vec = [d \in 0 .. (NBlocks(r_displs) * NBlocks(c_displs) - 1) |-> << >>]
    /\ win \in { [d \in 0 .. (NBlocks(r_displs) * NBlocks(c_displs) - 1) |->
                    [off \in 0 .. (Last(r_displs) * MaxBlkLen(c_displs) - 1) |-> f]] :
                 f \in Fills }
    /\ win0 = win
    /\ procs = [p \in Procs |-> IdleProc]
    /\ events = << >>
    /\ routed = << >>
    /\ aborted = FALSE
    /\ ub = FALSE
    /\ call = CallRec("init", NoArgs, 0)
    /\ enq = [d \in 0 .. (NBlocks(r_displs) * NBlocks(c_displs) - 1) |-> << >>]

\* A handle whose local blocks are zeroed.
InitHandle(RowTables, ColTables) == InitHandleFill(RowTables, ColTables, {0})

\* A table written as a tuple of boundaries.
Tbl(t) == [i \in 0 .. (Len(t) - 1) |-> t[i + 1]]

\* The partitions the call sequences of Spec run on.
SeqRowTables == { Tbl(<<0, 1>>) }
SeqColTables == { Tbl(<<0, 1, 2>>), Tbl(<<0, 1, 2, 3>>) }

Init ==
    /\ InitHandle(SeqRowTables, SeqColTables)
    /\ my_rank \in 0 .. (NBlocks(r_displs) * NBlocks(c_displs) - 1)
    /\ budget = MaxCalls

\* ------------------------------------------------------------------- inputs
SrcBufs == {0}

\* GTM_PARAM as a well-behaved caller passes it: an in-bounds, non-empty
\* rectangle whose source is contiguous, or padded by one element per row
\* (contiguous only on a matrix larger than MaxDim).
InBoundsInputs(op, access_mode) ==
    { a \in { UpdateArgs(op, rs, rn, cs, cn, sb, cn + pad, access_mode) :
                rs \in 0 .. (nrows - 1), rn \in 1 .. nrows,
                cs \in 0 .. (ncols - 1), cn \in 1 .. ncols,
                sb \in SrcBufs, pad \in 0 .. (IF nrows > MaxDim THEN 0 ELSE 1) } :
        ~Rejected(a) }

\* GTM_PARAM as any caller may pass it: starts and counts from one below the
\* valid range to one above it.  The leading dimension of a rejected
\* rectangle is never read, so one value stands for all.
AnyInputs(op, access_mode) ==
    { a \in { UpdateArgs(op, rs, rn, cs, cn, sb, ld, access_mode) :
                rs \in -1 .. nrows, rn \in -1 .. (nrows + 1),
                cs \in -1 .. ncols, cn \in -1 .. (ncols + 1),
                sb \in SrcBufs, ld \in 1 .. MaxLd } :
        Rejected(a) => a.src_buf_ld = 1 }

\* ------------------------------------------------------------------ actions
\* The state a call leaves when its outcome is o: the transport calls are
\* applied to the windows (every lock epoch of the call has ended).
Returns(o) ==
    /\ events' = o.events
    /\ req_vec' = o.req_vec
    /\ routed' = o.routed
    /\ aborted' = o.aborted
    /\ win' = ApplyEvents(win, o.events, Len(o.events))

\* enq after a call that leaves queues vecs: what the call pushed is added
\* while the epoch is open.
Pushed(vecs) ==
    [d \in DOMAIN enq |->
        IF is_batch_updating = 1
        THEN enq[d] \o SubSeq(vecs[d], Len(req_vec[d]) + 1, Len(vecs[d]))
        ELSE enq[d]]

\* A public update call: GTM_updateBlock with the given operation and mode, on
\* arguments drawn from In.
Update(fn, op, access_mode, In) ==
    /\ budget > 0
    /\ ~aborted
    /\ \E a \in In : \E g \in Garbage(a) :
          /\ Returns(GTM_updateBlock(req_vec, a, g))
          /\ enq' = Pushed(GTM_updateBlock(req_vec, a, g).req_vec)
          /\ call' = CallRec(fn, a, is_batch_updating)
    /\ budget' = budget - 1
    /\ UNCHANGED <<cfgvars, accvars, is_batch_updating, is_batch_getting, ub>>

GTM_putBlock ==
    Update("GTM_putBlock", MPI_REPLACE, BLOCKING_ACCESS,
           InBoundsInputs(MPI_REPLACE, BLOCKING_ACCESS))

\* Lines 192-200: GTM_accumulateBlock passes MPI_SUM and BLOCKING_ACCESS.
AccumulateBlockInputs_Replace == InBoundsInputs(MPI_REPLACE, BLOCKING_ACCESS)

AccumulateBlockInputs == InBoundsInputs(MPI_SUM, BLOCKING_ACCESS)

GTM_accumulateBlock ==
    Update("GTM_accumulateBlock", MPI_SUM, BLOCKING_ACCESS, AccumulateBlockInputs)

GTM_addPutBlockRequest ==
    Update("GTM_addPutBlockRequest", MPI_REPLACE, BATCH_ACCESS,
           InBoundsInputs(MPI_REPLACE, BATCH_ACCESS))

GTM_addAccumulateBlockRequest ==
    Update("GTM_addAccumulateBlockRequest", MPI_SUM, BATCH_ACCESS,
           InBoundsInputs(MPI_SUM, BATCH_ACCESS))

GTM_startBatchUpdate_NoReset ==
    /\ ~aborted
    /\ IF is_batch_getting # 0
       THEN UNCHANGED <<req_vec, is_batch_updating>>
       ELSE /\ req_vec' = req_vec
            /\ is_batch_updating' = 1
    /\ events' = << >>
    /\ routed' = << >>
    /\ call' = CallRec("GTM_startBatchUpdate", call.a, is_batch_updating)
    /\ enq' = IF is_batch_updating = 1 THEN enq ELSE [d \in DOMAIN enq |-> << >>]
    /\ UNCHANGED <<cfgvars, accvars, is_batch_getting, win, aborted, ub, budget>>

GTM_startBatchUpdate ==
    /\ ~aborted
    /\ IF is_batch_getting # 0
       THEN UNCHANGED <<req_vec, is_batch_updating>>
       ELSE /\ req_vec' = [d \in DOMAIN req_vec |-> GTM_resetReqVector(req_vec[d])]
            /\ is_batch_updating' = 1
    /\ events' = << >>
    /\ routed' = << >>
    /\ call' = CallRec("GTM_startBatchUpdate", call.a, is_batch_updating)
    /\ enq' = IF is_batch_updating = 1 THEN enq ELSE [d \in DOMAIN enq |-> << >>]
    /\ UNCHANGED <<cfgvars, accvars, is_batch_getting, win, aborted, ub, budget>>

GTM_execBatchUpdateCall_Closes ==
    /\ ~aborted
    /\ Returns(GTM_execBatchUpdate(is_batch_updating, req_vec))
    /\ enq' = IF is_batch_updating = 1 THEN [d \in DOMAIN enq |-> << >>] ELSE enq
    /\ call' = CallRec("GTM_execBatchUpdate", call.a, is_batch_updating)
    /\ is_batch_updating' = 0
    /\ UNCHANGED <<cfgvars, accvars, is_batch_getting, ub, budget>>

GTM_execBatchUpdateCall ==
    /\ ~aborted
    /\ Returns(GTM_execBatchUpdate(is_batch_updating, req_vec))
    /\ enq' = IF is_batch_updating = 1 THEN [d \in DOMAIN enq |-> << >>] ELSE enq
    /\ call' = CallRec("GTM_execBatchUpdate", call.a, is_batch_updating)
    /\ UNCHANGED <<cfgvars, accvars, is_batch_updating, is_batch_getting, ub, budget>>

GTM_stopBatchUpdate_Reset ==
    /\ ~aborted
    /\ is_batch_updating' = 0
    /\ req_vec' = [d \in DOMAIN req_vec |->
                    IF is_batch_updating = 0 THEN req_vec[d] ELSE << >>]
    /\ events' = << >>
    /\ routed' = << >>
    /\ call' = CallRec("GTM_stopBatchUpdate", call.a, is_batch_updating)
    /\ enq' = [d \in DOMAIN enq |-> << >>]
    /\ UNCHANGED <<cfgvars, accvars, is_batch_getting, win, aborted, ub, budget>>

GTM_stopBatchUpdate ==
    /\ ~aborted
    /\ IF is_batch_updating = 0
       THEN UNCHANGED is_batch_updating
       ELSE is_batch_updating' = 0
    /\ events' = << >>
    /\ routed' = << >>
    /\ call' = CallRec("GTM_stopBatchUpdate", call.a, is_batch_updating)
    /\ enq' = [d \in DOMAIN enq |-> << >>]
    /\ UNCHANGED <<cfgvars, accvars, is_batch_getting, req_vec, win, aborted, ub, budget>>

Next ==
    \/ GTM_putBlock
    \/ GTM_accumulateBlock
    \/ GTM_addPutBlockRequest
    \/ GTM_addAccumulateBlockRequest
    \/ GTM_startBatchUpdate
    \/ GTM_execBatchUpdateCall
    \/ GTM_stopBatchUpdate

Spec == Init /\ [][Next]_vars

\* ------------------------------------------------------- batch calls only
\* SpecBatch: the call sequences of Spec that make no immediate update, so
\* that every remote write is the work of GTM_execBatchUpdate.
NextBatch ==
    \/ GTM_addPutBlockRequest
    \/ GTM_addAccumulateBlockRequest
    \/ GTM_startBatchUpdate
    \/ GTM_execBatchUpdateCall
    \/ GTM_stopBatchUpdate

SpecBatch == Init /\ [][NextBatch]_vars

\* ---------------------------------------------------- one call, any arguments
\* SpecCall: one update call with arbitrary arguments on a fresh handle of any
\* partition of a matrix of up to MaxDim x MaxDim.
SmallTables == UNION { DisplTables(n) : n \in 1 .. MaxDim }

InitCall ==
    /\ InitHandle(SmallTables, SmallTables)
    /\ my_rank = 0
    /\ budget = 1

PutBlockAny ==
    Update("GTM_putBlock", MPI_REPLACE, BLOCKING_ACCESS,
           AnyInputs(MPI_REPLACE, BLOCKING_ACCESS))

AccumulateBlockAny ==
    Update("GTM_accumulateBlock", MPI_SUM, BLOCKING_ACCESS,
           AnyInputs(MPI_SUM, BLOCKING_ACCESS))

AddPutBlockRequestAny ==
    Update("GTM_addPutBlockRequest", MPI_REPLACE, BATCH_ACCESS,
           AnyInputs(MPI_REPLACE, BATCH_ACCESS))

AddAccumulateBlockRequestAny ==
    Update("GTM_addAccumulateBlockRequest", MPI_SUM, BATCH_ACCESS,
           AnyInputs(MPI_SUM, BATCH_ACCESS))

NextCall ==
    \/ PutBlockAny
    \/ AccumulateBlockAny
    \/ AddPutBlockRequestAny
    \/ AddAccumulateBlockRequestAny

SpecCall == InitCall /\ [][NextCall]_vars

\* ------------------------------------------- replace calls, in-bounds arguments
\* SpecRoute: one replace call (immediate, or queued and drained) with an
\* in-bounds rectangle, on any partition of a small matrix.
InitRoute ==
    /\ InitHandle(SmallTables, SmallTables)
    /\ my_rank = 0
    /\ budget = 1

PutBlockIn ==
    Update("GTM_putBlock", MPI_REPLACE, BLOCKING_ACCESS,
           InBoundsInputs(MPI_REPLACE, BLOCKING_ACCESS))

AddPutBlockRequestIn ==
    Update("GTM_addPutBlockRequest", MPI_REPLACE, BATCH_ACCESS,
           InBoundsInputs(MPI_REPLACE, BATCH_ACCESS))

NextRoute ==
    \/ PutBlockIn
    \/ AddPutBlockRequestIn
    \/ GTM_startBatchUpdate
    \/ GTM_execBatchUpdateCall

SpecRoute == InitRoute /\ [][NextRoute]_vars

\* ------------------------------------------------- the partition of the test
\* SpecTest: one update call with an in-bounds rectangle on any partition of
\* a small matrix and on the partition of test/test_Symmetrize.c.
TestRowTable == Tbl(<<0, 1, 4, 6, 10>>)
TestColTable == Tbl(<<0, 2, 5, 7, 10>>)
ACTOR_RANK == 5

InitTest ==
    /\ InitHandle(SmallTables \cup {TestRowTable}, SmallTables \cup {TestColTable})
    /\ my_rank = IF NBlocks(r_displs) * NBlocks(c_displs) > ACTOR_RANK
                 THEN ACTOR_RANK ELSE 0
    /\ budget = 1

NextTest ==
    \/ PutBlockIn
    \/ AddPutBlockRequestIn

SpecTest == InitTest /\ [][NextTest]_vars

\* --------------------------------------- the single-destination updater alone
\* SpecUpd: one direct call of GTM_updateBlockToProcess with arbitrary
\* arguments on a fresh handle of any partition of a small matrix.
InitUpd ==
    /\ InitHandle(SmallTables, SmallTables)
    /\ my_rank = 0
    /\ budget = 1

\* The arguments of a direct call, as a sub-block record.
UpdArgs(dst, op, row_start, row_num, col_start, col_num, src_buf, src_buf_ld) ==
    [dst_rank |-> dst, need_to_fetch |-> 1, op |-> op,
     row_start |-> row_start, row_num |-> row_num,
     col_start |-> col_start, col_num |-> col_num,
     src_buf |-> src_buf, src_buf_ld |-> src_buf_ld]

\* The updater's sanity check (lines 43-47) rejects b.
UpdRejected(b) ==
    GTM_updateBlockToProcess(b.dst_rank, b.op, b.row_start, b.row_num,
                             b.col_start, b.col_num, b.src_buf, b.src_buf_ld) = << >>

\* The leading dimension of a rejected block is never read: one value stands
\* for all.
UpdInputs ==
    { b \in { UpdArgs(dst, op, rs, rn, cs, cn, sb, ld) :
                dst \in Ranks, op \in {MPI_SUM, MPI_REPLACE},
                rs \in -1 .. nrows, rn \in -1 .. (nrows + 1),
                cs \in -1 .. ncols, cn \in -1 .. (ncols + 1),
                sb \in SrcBufs, ld \in 1 .. MaxLd } :
        UpdRejected(b) => b.src_buf_ld = 1 }

\* Some transfer of evs is framed by a descriptor read outside the caches.
FramedByJunk(evs) ==
    \E i \in 1 .. Len(evs) : evs[i].odt.kind = "junk" \/ evs[i].tdt.kind = "junk"

\* What the windows may hold after a transfer to dst framed by junk: nothing
\* written, or some element of the window overwritten.
JunkOutcomes(w, dst) ==
    {w} \cup { [w EXCEPT ![dst][off] = -1] : off \in DOMAIN w[dst] }

UpdateBlockToProcessCall ==
    /\ budget > 0
    /\ ~aborted
    /\ \E b \in UpdInputs :
          /\ events' = GTM_updateBlockToProcess(b.dst_rank, b.op, b.row_start, b.row_num,
                            b.col_start, b.col_num, b.src_buf, b.src_buf_ld)
          /\ routed' = << b >>
          /\ call' = CallRec("GTM_updateBlockToProcess",
                             UpdateArgs(b.op, b.row_start, b.row_num, b.col_start,
                                        b.col_num, b.src_buf, b.src_buf_ld, ""),
                             is_batch_updating)
          /\ IF FramedByJunk(events')
             THEN /\ ub' = TRUE
                  /\ win' \in JunkOutcomes(win, b.dst_rank)
             ELSE /\ ub' = ub
                  /\ win' = ApplyEvents(win, events', Len(events'))
    /\ budget' = budget - 1
    /\ UNCHANGED <<cfgvars, accvars, is_batch_updating, is_batch_getting, req_vec, aborted, enq>>

NextUpd == UpdateBlockToProcessCall

SpecUpd == InitUpd /\ [][NextUpd]_vars

\* ------------------------------------------------- concurrent accumulators
\* SpecAcc: NProcs processes call GTM_accumulateBlock on the same matrix.  A
\* blocking update reads and writes nothing of the caller's handle but the
\* partition, so the processes differ only in where they are in their calls.
\* Each transport call of a process is one step; the elements of an
\* accumulate are combined into the target window one at a time, each
\* atomically, at any moment between the accumulate and the end of the
\* unlock that closes its epoch.
AccRowTables == { Tbl(<<0, 1>>), Tbl(<<0, 2>>) }
AccColTables == { Tbl(<<0, 2>>), Tbl(<<0, 1, 2>>) }
AccFills == {0, 10}

InitAcc ==
    /\ InitHandleFill(AccRowTables, AccColTables, AccFills)
    /\ my_rank = 0
    /\ budget = MaxCalls

\* The element transfers of one accumulate.
Elements(ev) ==
    { [rank |-> ev.rank, op |-> ev.op, off |-> TargetOffset(ev, k),
       val |-> SrcVal(OriginIndex(ev, k))] : k \in 0 .. (EvSize(ev) - 1) }

\* Lines 192-200, 158-166: process p enters GTM_accumulateBlock; the router
\* fixes the transport calls it is going to make.
AccumulateBlockBegin(p) ==
    /\ budget > 0
    /\ ~aborted
    /\ procs[p].pc = "idle"
    /\ \E a \in AccumulateBlockInputs : \E g \in Garbage(a) :
          /\ procs' = [procs EXCEPT ![p] =
                 [pc |-> "run", todo |-> GTM_updateBlock(req_vec, a, g).events,
                  held |-> {}, inflight |-> {}, did |-> Append(procs[p].did, a)]]
          /\ events' = GTM_updateBlock(req_vec, a, g).events
          /\ routed' = GTM_updateBlock(req_vec, a, g).routed
          /\ aborted' = GTM_updateBlock(req_vec, a, g).aborted
          /\ call' = CallRec("GTM_accumulateBlock", a, is_batch_updating)
    /\ budget' = budget - 1
    /\ UNCHANGED <<cfgvars, is_batch_updating, is_batch_getting, req_vec, win, win0, ub, enq>>

\* The process after its next transport call: a shared lock is granted at
\* once, an accumulate puts its elements in flight.
Stepped(pr, ev) ==
    [pr EXCEPT !.todo = Tail(pr.todo),
               !.pc = IF Len(pr.todo) = 1 THEN "idle" ELSE "run",
               !.held = IF ev.type = "lock" THEN pr.held \cup {ev.rank}
                        ELSE IF ev.type = "unlock" THEN pr.held \ {ev.rank}
                        ELSE pr.held,
               !.inflight = IF ev.type = "acc" THEN pr.inflight \cup Elements(ev)
                            ELSE pr.inflight]

\* Process p makes its next transport call.  MPI_Win_unlock returns when every
\* transfer of the epoch has completed at the target.
TransportStep(p) ==
    /\ procs[p].pc = "run"
    /\ procs[p].todo # << >>
    /\ Head(procs[p].todo).type = "unlock" =>
          \A e \in procs[p].inflight : e.rank # Head(procs[p].todo).rank
    /\ procs' = [procs EXCEPT ![p] = Stepped(procs[p], Head(procs[p].todo))]
    /\ UNCHANGED <<cfgvars, is_batch_updating, is_batch_getting, req_vec, win, win0,
                   events, routed, aborted, ub, call, enq, budget>>

\* One element in flight from process p is combined into its target cell.
ElementStep(p) ==
    /\ \E e \in procs[p].inflight :
          /\ win' = [win EXCEPT ![e.rank][e.off] = Combine(e.op, win[e.rank][e.off], e.val)]
          /\ procs' = [procs EXCEPT ![p].inflight = procs[p].inflight \ {e}]
    /\ UNCHANGED <<cfgvars, is_batch_updating, is_batch_getting, req_vec, win0,
                   events, routed, aborted, ub, call, enq, budget>>

NextAcc ==
    \E p \in Procs :
        \/ AccumulateBlockBegin(p)
        \/ TransportStep(p)
        \/ ElementStep(p)

SpecAcc == InitAcc /\ [][NextAcc]_vars

\* ======================================================================
\* Properties
\* ======================================================================
UpdateFns ==
    { "GTM_putBlock", "GTM_accumulateBlock",
      "GTM_addPutBlockRequest", "GTM_addAccumulateBlockRequest" }

ImmediateFns == { "GTM_putBlock", "GTM_accumulateBlock" }

BatchFns == { "GTM_addPutBlockRequest", "GTM_addAccumulateBlockRequest" }

\* The rectangle lies inside the matrix and has positive counts.
InBounds(a) ==
    /\ a.row_start >= 0 /\ a.col_start >= 0
    /\ a.row_num > 0 /\ a.col_num > 0
    /\ a.row_start + a.row_num <= nrows
    /\ a.col_start + a.col_num <= ncols

\* Cell (r, c) lies in the rectangle of b (call arguments or sub-block).
Covers(b, r, c) ==
    /\ b.row_start <= r /\ r < b.row_start + b.row_num
    /\ b.col_start <= c /\ c < b.col_start + b.col_num

\* The sub-blocks of `routed` that cover cell (r, c).
CoveredBy(r, c) == { i \in 1 .. Len(routed) : Covers(routed[i], r, c) }

\* The entry a queued sub-block becomes.
EntryOf(b) ==
    ReqEntry(b.op, b.row_start, b.row_num, b.col_start, b.col_num, b.src_buf, b.src_buf_ld)

NumEvents(type) == Cardinality({ i \in 1 .. Len(events) : events[i].type = type })

\* C1: the sub-rectangles GTM_updateBlock dispatches for an in-bounds,
\* non-empty rectangle partition it: every dispatched sub-rectangle is
\* non-empty, every cell of the rectangle lies in exactly one of them and no
\* cell outside the rectangle lies in any; there is one per owner, and each is
\* really handed on (one lock epoch each in immediate mode, one queue entry
\* on the owner's queue each in batch mode).
C1_Tiling ==
    (call.fn \in UpdateFns /\ InBounds(call.a)) =>
        /\ ~aborted
        /\ \A i \in 1 .. Len(routed) : routed[i].row_num > 0 /\ routed[i].col_num > 0
        /\ \A r \in -1 .. nrows : \A c \in -1 .. ncols :
              Cardinality(CoveredBy(r, c)) = IF Covers(call.a, r, c) THEN 1 ELSE 0
        /\ \A i, j \in 1 .. Len(routed) :
              routed[i].dst_rank = routed[j].dst_rank => i = j
        /\ call.fn \in ImmediateFns =>
              /\ NumEvents("lock") = Len(routed)
              /\ \A d \in Ranks : req_vec[d] = << >>
        /\ call.fn \in BatchFns =>
              /\ events = << >>
              /\ \A i \in 1 .. Len(routed) :
                    req_vec[routed[i].dst_rank] = << EntryOf(routed[i]) >>
              /\ \A d \in Ranks :
                    req_vec[d] # << >> => \E i \in 1 .. Len(routed) : routed[i].dst_rank = d

\* A rectangle that straddles a 2 x 2 group of owners, strictly inside the matrix.
C1_Witness ==
    /\ call.fn = "GTM_addPutBlockRequest"
    /\ InBounds(call.a)
    /\ Len(routed) = 4
    /\ call.a.row_num < nrows
    /\ call.a.col_num < ncols
    /\ r_blocks = 3

\* The entries of a dispatch list addressed to rank d, in order.
RoutedTo(subs, d) ==
    LET x == SelectSeq(subs, LAMBDA b : b.dst_rank = d)
    IN  [i \in 1 .. Len(x) |-> EntryOf(x[i])]

\* C2: an executeBatchUpdate in an open epoch replays, for every destination,
\* exactly the entries enqueued for it since the epoch was opened (and not
\* drained since), each once and in enqueue order; an executeBatchUpdate that
\* directly follows another replays nothing.
C2_ReplayOnceInOrder ==
    [][ (call'.fn = "GTM_execBatchUpdate" /\ is_batch_updating = 1) =>
            /\ \A d \in Ranks : RoutedTo(routed', d) = enq[d]
            /\ call.fn = "GTM_execBatchUpdate" => (routed' = << >> /\ events' = << >>)
      ]_vars

\* C3: startBatchUpdate in an open epoch leaves the flag set and every queue
\* as it is; in an idle epoch it empties every queue and sets the flag.
C3_StartIdempotent ==
    [][ call'.fn = "GTM_startBatchUpdate" =>
            IF is_batch_updating = 1
            THEN is_batch_updating' = 1 /\ req_vec' = req_vec
            ELSE is_batch_updating' = 1 /\ \A d \in Ranks : req_vec'[d] = << >>
      ]_vars

\* C5: stopBatchUpdate changes nothing in an idle epoch; in an open epoch it
\* clears the flag and leaves every queue as it is.  It makes no transport
\* call and the windows stay as they are.
C5_StopFrame ==
    [][ call'.fn = "GTM_stopBatchUpdate" =>
            /\ is_batch_updating' = 0
            /\ req_vec' = req_vec
            /\ events' = << >>
            /\ win' = win
      ]_vars

\* stopBatchUpdate has ended an open epoch whose queues hold entries.
C5_Witness ==
    /\ call.fn = "GTM_stopBatchUpdate"
    /\ call.was_updating = 1
    /\ is_batch_updating = 0
    /\ \E d \in Ranks : Len(req_vec[d]) = 2

\* C6: executeBatchUpdate in an idle epoch makes no transport call and leaves
\* the queues, the flag and the windows as they are.
C6_ExecIdleNoOp ==
    [][ (call'.fn = "GTM_execBatchUpdate" /\ is_batch_updating = 0) =>
            /\ events' = << >>
            /\ req_vec' = req_vec
            /\ is_batch_updating' = 0
            /\ win' = win
      ]_vars

\* executeBatchUpdate was called in an idle epoch with entries in the queues.
C6_Witness ==
    /\ call.fn = "GTM_execBatchUpdate"
    /\ call.was_updating = 0
    /\ is_batch_updating = 0
    /\ \E d \in Ranks : req_vec[d] # << >>

\* The rectangle is invalid or empty as the claim counts it.
InvalidOrEmpty(a) ==
    \/ a.row_start < 0 \/ a.col_start < 0
    \/ a.row_start + a.row_num > nrows
    \/ a.col_start + a.col_num > ncols
    \/ a.row_num < 0 \/ a.col_num < 0
    \/ a.row_num * a.col_num = 0

\* C4: an update call (on a fresh handle) whose rectangle is invalid or empty
\* is a silent no-op: no transport call, no queue entry, no abort.
C4_InvalidNoOp ==
    (call.fn \in UpdateFns /\ InvalidOrEmpty(call.a)) =>
        /\ events = << >>
        /\ \A d \in Ranks : req_vec[d] = << >>
        /\ ~aborted

\* The block that holds coordinate x in a table.
BlkOf(displs, x) ==
    CHOOSE i \in 0 .. (NBlocks(displs) - 1) : displs[i] <= x /\ x < displs[i + 1]

\* The rank that owns cell (r, c), and the cell's offset in its local buffer.
OwnerOf(r, c) == BlkOf(r_displs, r) * c_blocks + BlkOf(c_displs, c)

LocalOffset(r, c) ==
    (r - r_displs[BlkOf(r_displs, r)]) * ld_local + (c - c_displs[BlkOf(c_displs, c)])

\* Every cell of rectangle a holds, in its owner's buffer, the source element
\* of the cell's position in a.
Placed(a, w) ==
    \A r \in a.row_start .. (a.row_start + a.row_num - 1) :
        \A c \in a.col_start .. (a.col_start + a.col_num - 1) :
            /\ LocalOffset(r, c) \in DOMAIN w[OwnerOf(r, c)]
            /\ w[OwnerOf(r, c)][LocalOffset(r, c)] =
                 SrcVal((a.src_buf \div unit_size)
                        + (r - a.row_start) * a.src_buf_ld + (c - a.col_start))

\* C7: when a Replace of an in-bounds non-empty rectangle has completed
\* (putBlock has returned, or the executeBatchUpdate that directly follows
\* addPutBlockRequest in an open epoch has), every cell (r, c) of the
\* rectangle holds, at offset (r - ownerRowStart) * ld_local + (c -
\* ownerColStart) of its owner's buffer, the source element of index
\* (r - row_start) * src_buf_ld + (c - col_start).
C7_ReplacePlacement ==
    [][ ( \/ call'.fn = "GTM_putBlock" /\ InBounds(call'.a)
          \/ /\ call'.fn = "GTM_execBatchUpdate"
             /\ is_batch_updating = 1
             /\ call.fn = "GTM_addPutBlockRequest"
             /\ InBounds(call.a) )
        => Placed(call'.a, win')
      ]_vars

\* A strided Replace that straddles four owners has been queued and drained.
C7_Witness ==
    /\ call.fn = "GTM_execBatchUpdate"
    /\ call.was_updating = 1
    /\ Len(routed) = 4
    /\ call.a.src_buf_ld > call.a.col_num
    /\ call.a.row_num = 3
    /\ Placed(call.a, win)

\* The 'Initial matrix' the test expects (test/test_Symmetrize.c, lines 16-25):
\* every process filled its block with rank + 10.
ExpectedInitial ==
    << <<10, 10, 11, 11, 11, 12, 12, 13, 13, 13>>,
       <<14, 14, 15, 15, 15, 16, 16, 17, 17, 17>>,
       <<14, 14, 15, 15, 15, 16, 16, 17, 17, 17>>,
       <<14, 14, 15, 15, 15, 16, 16, 17, 17, 17>>,
       <<18, 18, 19, 19, 19, 20, 20, 21, 21, 21>>,
       <<18, 18, 19, 19, 19, 20, 20, 21, 21, 21>>,
       <<22, 22, 23, 23, 23, 24, 24, 25, 25, 25>>,
       <<22, 22, 23, 23, 23, 24, 24, 25, 25, 25>>,
       <<22, 22, 23, 23, 23, 24, 24, 25, 25, 25>>,
       <<22, 22, 23, 23, 23, 24, 24, 25, 25, 25>> >>

IsTestPartition == r_displs = TestRowTable /\ c_displs = TestColTable

\* Sub-block b lies inside the region its destination rank owns.
InOwnedRegion(b) ==
    /\ b.dst_rank \in Ranks
    /\ r_displs[b.dst_rank \div c_blocks] <= b.row_start
    /\ b.row_start + b.row_num <= r_displs[(b.dst_rank \div c_blocks) + 1]
    /\ c_displs[b.dst_rank % c_blocks] <= b.col_start
    /\ b.col_start + b.col_num <= c_displs[(b.dst_rank % c_blocks) + 1]
    /\ b.row_num * b.col_num > 0

\* C9: every sub-block GTM_updateBlock dispatches lies inside the region of
\* the rank it is addressed to, so the single-destination updater accepts it
\* (one accumulate per sub-block in immediate mode); on the partition of the
\* test every cell of the rectangle is routed to exactly one rank, the rank
\* whose fill value rank + 10 the expected initial matrix shows for the cell.
C9_RoutedToOwner ==
    call.fn \in UpdateFns =>
        /\ \A i \in 1 .. Len(routed) : InOwnedRegion(routed[i])
        /\ call.fn \in ImmediateFns => NumEvents("acc") = Len(routed)
        /\ IsTestPartition =>
              \A r \in 0 .. (nrows - 1) : \A c \in 0 .. (ncols - 1) :
                  Covers(call.a, r, c) =>
                      /\ Cardinality(CoveredBy(r, c)) = 1
                      /\ \A i \in CoveredBy(r, c) :
                            routed[i].dst_rank + 10 = ExpectedInitial[r + 1][c + 1]

\* The whole 10 x 10 matrix of the test was put: sixteen sub-blocks.
C9_Witness ==
    /\ IsTestPartition
    /\ call.fn = "GTM_putBlock"
    /\ call.a.row_num = 10 /\ call.a.col_num = 10
    /\ Len(routed) = 16
    /\ NumEvents("acc") = 16

\* The offset of block b in the local buffer of its destination.
DstPosOf(b) ==
    (b.row_start - r_displs[b.dst_rank \div c_blocks]) * ld_local
    + (b.col_start - c_displs[b.dst_rank % c_blocks])

\* The accumulates among the transport calls, in order.
Accumulates == SelectSeq(events, LAMBDA ev : ev.type = "acc")

\* Transfer ev moves source element (i, j) of block b to offset
\* dst_pos + i * ld_local + j, for every i < row_num and j < col_num, and
\* nothing else.
MovesBlock(ev, b) ==
    /\ ev.rank = b.dst_rank
    /\ ev.op = b.op
    /\ TypeSize(ev.odt) = b.row_num * b.col_num
    /\ TypeSize(ev.tdt) = b.row_num * b.col_num
    /\ \A i \in 0 .. (b.row_num - 1) : \A j \in 0 .. (b.col_num - 1) :
          /\ TargetOffset(ev, i * b.col_num + j) = DstPosOf(b) + i * ld_local + j
          /\ OriginIndex(ev, i * b.col_num + j) =
                (b.src_buf \div unit_size) + i * b.src_buf_ld + j

\* The window contents a transfer of block b into zeroed windows leaves.
BlockImage(b) ==
    [d \in Ranks |-> [off \in 0 .. (nrows * ld_local - 1) |->
        IF d = b.dst_rank
           /\ \E i \in 0 .. (b.row_num - 1) : \E j \in 0 .. (b.col_num - 1) :
                 off = DstPosOf(b) + i * ld_local + j
        THEN LET i == (off - DstPosOf(b)) \div ld_local
                 j == (off - DstPosOf(b)) % ld_local
             IN  SrcVal((b.src_buf \div unit_size) + i * b.src_buf_ld + j)
        ELSE 0]]

\* C10: whatever descriptors the updater picks (cached no-stride, cached
\* matched-stride, one ephemeral source descriptor at or below the ceiling,
\* two ephemeral descriptors above it), an accepted block with positive counts
\* is moved by exactly one accumulate that writes source element (i, j) to
\* offset dst_pos + i * ld_local + j and nothing else: the window contents
\* are the same on every path.
C10_PathIndependent ==
    (call.fn = "GTM_updateBlockToProcess" /\ events # << >>
        /\ call.a.row_num > 0 /\ call.a.col_num > 0) =>
        /\ Len(Accumulates) = 1
        /\ MovesBlock(Accumulates[1], routed[1])
        /\ win = BlockImage(routed[1])

\* A strided block one above the ceiling in both counts went through two
\* ephemeral descriptors.
C10_Witness ==
    /\ call.fn = "GTM_updateBlockToProcess"
    /\ call.a.row_num = MPI_DT_SB_DIM_MAX + 1
    /\ call.a.col_num = MPI_DT_SB_DIM_MAX + 1
    /\ call.a.src_buf_ld = MPI_DT_SB_DIM_MAX + 2
    /\ Len(Accumulates) = 1
    /\ Accumulates[1].tdt.kind = "ephemeral"
    /\ Accumulates[1].odt.kind = "ephemeral"
    /\ win = BlockImage(routed[1])

\* What call a adds to offset off of rank d: the source element of the cell
\* of a's rectangle stored there, 0 when there is none.
ContributionOf(a, d, off) ==
    LET cells == { rc \in (a.row_start .. (a.row_start + a.row_num - 1))
                          \X (a.col_start .. (a.col_start + a.col_num - 1)) :
                     OwnerOf(rc[1], rc[2]) = d /\ LocalOffset(rc[1], rc[2]) = off }
    IN  IF cells = {} THEN 0
        ELSE LET rc == CHOOSE x \in cells : TRUE
             IN  SrcVal((a.src_buf \div unit_size)
                        + (rc[1] - a.row_start) * a.src_buf_ld + (rc[2] - a.col_start))

\* The sum of the contributions of the first i calls of a sequence.
RECURSIVE SumCalls(_, _, _, _)
SumCalls(did, i, d, off) ==
    IF i = 0 THEN 0
    ELSE SumCalls(did, i - 1, d, off) + ContributionOf(did[i], d, off)

\* The sum over the calls of processes 1 .. p.
RECURSIVE SumProcs(_, _, _)
SumProcs(p, d, off) ==
    IF p = 0 THEN 0
    ELSE SumProcs(p - 1, d, off) + SumCalls(procs[p].did, Len(procs[p].did), d, off)

\* No process is inside a call: every epoch has ended.
AllEpochsEnded == \A p \in Procs : procs[p].pc = "idle"

\* C8: whenever every epoch has ended, every cell holds its initial value
\* plus the sum of everything accumulated into it by any process, however the
\* lock epochs and the element steps interleaved: n accumulates of v leave
\* initial + n * v, none is lost.
C8_AccumulateLinear ==
    AllEpochsEnded =>
        \A d \in Ranks : \A off \in DOMAIN win[d] :
            win[d][off] = win0[d][off] + SumProcs(NProcs, d, off)

\* Two processes have each accumulated v = SrcVal(0) into cell (0, 0), all
\* epochs have ended and the cell holds its initial value plus 2 * v.
C8_Witness ==
    /\ AllEpochsEnded
    /\ Cardinality({ p \in Procs :
            /\ procs[p].did # << >>
            /\ procs[p].did[1].row_start = 0
            /\ procs[p].did[1].col_start = 0 }) = 2
    /\ win[0][0] = win0[0][0] + 2 * SrcVal(0)

\* The four block indices of a call are assigned by the search loops
\* (lines 119-132) before the dispatch loops read them.
IndicesAssigned(a) ==
    /\ BlkMatches(r_displs, r_blocks, a.row_start) # {}
    /\ BlkMatches(r_displs, r_blocks, a.row_start + a.row_num - 1) # {}
    /\ BlkMatches(c_displs, c_blocks, a.col_start) # {}
    /\ BlkMatches(c_displs, c_blocks, a.col_start + a.col_num - 1) # {}

\* C11: a call of GTM_updateBlock that passes the validation check (lines
\* 110-113) reads only block indices its search loops assigned, finds a
\* non-empty intersection for every block pair it iterates, and so never
\* fails assert(need_to_fetch == 1).
C11_NoAbort ==
    (call.fn \in UpdateFns /\ ~Rejected(call.a)) =>
        /\ IndicesAssigned(call.a)
        /\ \A i \in 1 .. Len(routed) : routed[i].need_to_fetch = 1
        /\ ~aborted

\* The lock, accumulate and unlock calls among evs, in order, each reduced to
\* its kind, target rank, operation (lock mode) and source address.
Skeleton(evs) ==
    LET x == SelectSeq(evs, LAMBDA ev : ev.type \in {"lock", "acc", "unlock"})
    IN  [i \in 1 .. Len(x) |-> <<x[i].type, x[i].rank, x[i].op, x[i].ptr>>]

\* One destination's epoch for queue vec: nothing when the queue is empty,
\* else one shared lock, one accumulate per entry in queue order, one unlock.
EpochFor(d, vec) ==
    IF vec = << >> THEN << >>
    ELSE << <<"lock", d, MPI_LOCK_SHARED, 0>> >>
         \o [i \in 1 .. Len(vec) |-> <<"acc", d, vec[i].op, vec[i].src_buf>>]
         \o << <<"unlock", d, "", 0>> >>

\* The epochs of the first k destinations in the order p, p + 1, ..., n - 1,
\* 0, ..., p - 1 for p = my_rank and n = comm_size.
RECURSIVE EpochsFrom(_, _)
EpochsFrom(vecs, k) ==
    IF k = 0 THEN << >>
    ELSE EpochsFrom(vecs, k - 1)
         \o EpochFor((my_rank + k - 1) % comm_size, vecs[(my_rank + k - 1) % comm_size])

\* C12: executeBatchUpdate in an open epoch visits the destinations in the
\* order my_rank, my_rank + 1, ..., wrapping around, each once; a destination
\* with a non-empty queue gets exactly one shared lock, the replay of all its
\* entries in order and the unlock before the next destination is visited; a
\* destination with an empty queue gets no lock; every queue is empty when
\* the call returns.
C12_DrainOrder ==
    [][ (call'.fn = "GTM_execBatchUpdate" /\ is_batch_updating = 1) =>
            /\ Skeleton(events') = EpochsFrom(req_vec, comm_size)
            /\ \A d \in Ranks : req_vec'[d] = << >>
      ]_vars

\* executeBatchUpdate on the last rank has drained its own queue first and
\* then, wrapping around, the queue of rank 0; a third rank's queue was empty.
C12_Witness ==
    /\ call.fn = "GTM_execBatchUpdate"
    /\ call.was_updating = 1
    /\ comm_size = 3
    /\ my_rank = comm_size - 1
    /\ Len(Skeleton(events)) = 6
    /\ Skeleton(events)[1][1] = "lock" /\ Skeleton(events)[1][2] = my_rank
    /\ Skeleton(events)[3][1] = "unlock" /\ Skeleton(events)[3][2] = my_rank
    /\ Skeleton(events)[4][1] = "lock" /\ Skeleton(events)[4][2] = 0

\* C13: executeBatchUpdate leaves the batch-open flag as it was: after an
\* executeBatchUpdate in an open epoch the epoch is still open, a request
\* added next is queued in that epoch, and an executeBatchUpdate in an open
\* epoch replays every entry in the queues, so the request is applied by the
\* second executeBatchUpdate with no startBatchUpdate in between.
C13_ExecKeepsFlag ==
    [][ /\ call'.fn = "GTM_execBatchUpdate" => is_batch_updating' = is_batch_updating
        /\ ( /\ call.fn = "GTM_execBatchUpdate" /\ call.was_updating = 1
             /\ call'.fn \in BatchFns )
           => /\ is_batch_updating' = 1
              /\ \A d \in Ranks : req_vec'[d] = RoutedTo(routed', d)
        /\ ( /\ call.fn \in BatchFns /\ is_batch_updating = 1
             /\ call'.fn = "GTM_execBatchUpdate" )
           => /\ \A d \in Ranks : RoutedTo(routed', d) = req_vec[d]
              /\ Len(SelectSeq(events', LAMBDA ev : ev.type = "acc")) = Len(routed')
      ]_vars

\* A second executeBatchUpdate has applied an accumulate request of one
\* element to a cell that already held the same request applied by the first:
\* both update calls are used up, this executeBatchUpdate made one accumulate
\* and the cell holds twice the source value.
C13_Witness ==
    /\ call.fn = "GTM_execBatchUpdate"
    /\ call.was_updating = 1
    /\ is_batch_updating = 1
    /\ budget = 0
    /\ Len(Accumulates) = 1
    /\ Accumulates[1].op = MPI_SUM
    /\ EvSize(Accumulates[1]) = 1
    /\ win[Accumulates[1].rank][Accumulates[1].pos] = 2 * SrcVal(OriginIndex(Accumulates[1], 0))

\* Sequence x is the tail of sequence y.
IsSuffix(x, y) ==
    /\ Len(x) <= Len(y)
    /\ x = SubSeq(y, Len(y) - Len(x) + 1, Len(y))

\* C14: entries enqueued in an open epoch that stopBatchUpdate ends before
\* any executeBatchUpdate are never applied.  enq holds the entries pushed in
\* the current open epoch and not yet drained (stopBatchUpdate empties it):
\* every executeBatchUpdate replays only entries of enq, so none that a
\* stopBatchUpdate left behind; directly after the stopBatchUpdate an
\* executeBatchUpdate makes no transport call and a startBatchUpdate empties
\* every queue.
C14_StoppedNeverApplied ==
    [][ /\ call'.fn = "GTM_execBatchUpdate" =>
              \A d \in Ranks : IsSuffix(RoutedTo(routed', d), enq[d])
        /\ (call.fn = "GTM_stopBatchUpdate" /\ call'.fn = "GTM_execBatchUpdate") =>
              (events' = << >> /\ win' = win)
        /\ (call.fn = "GTM_stopBatchUpdate" /\ call'.fn = "GTM_startBatchUpdate") =>
              \A d \in Ranks : req_vec'[d] = << >>
      ]_vars

\* stopBatchUpdate has ended an open epoch in which one entry was enqueued
\* and none executed: the entry is still in its queue and no window has been
\* written.
C14_Witness ==
    /\ call.fn = "GTM_stopBatchUpdate"
    /\ call.was_updating = 1
    /\ is_batch_updating = 0
    /\ budget = MaxCalls - 1
    /\ \E d \in Ranks : Len(req_vec[d]) = 1
    /\ \A d \in Ranks : enq[d] = << >>
    /\ win = win0

\* The lock, accumulate and unlock calls of evs are, for each sub-block of
\* subs in turn: a shared lock on its owner, one accumulate to the owner with
\* the sub-block's operation and source address, the unlock of the owner.
OneEpochPerSubBlock(evs, subs) ==
    /\ Len(Skeleton(evs)) = 3 * Len(subs)
    /\ \A i \in 1 .. Len(subs) :
          /\ Skeleton(evs)[3 * i - 2] = <<"lock", subs[i].dst_rank, MPI_LOCK_SHARED, 0>>
          /\ Skeleton(evs)[3 * i - 1] = <<"acc", subs[i].dst_rank, subs[i].op, subs[i].src_buf>>
          /\ Skeleton(evs)[3 * i] = <<"unlock", subs[i].dst_rank, "", 0>>

\* C15: putBlock and accumulateBlock make, for each owner sub-block in turn,
\* exactly a shared lock on the owner, one call of the single-destination
\* updater for the owner and the unlock of the owner: as many lock/unlock
\* pairs as owner sub-blocks; no request queue and not the batch-open flag
\* is changed.
C15_ImmediateEpochs ==
    [][ call'.fn \in ImmediateFns =>
            /\ routed' # << >>
            /\ OneEpochPerSubBlock(events', routed')
            /\ \A i \in 1 .. Len(routed') :
                  /\ routed'[i].op = call'.a.op
                  /\ \A j \in 1 .. Len(routed') : i # j => routed'[i].dst_rank # routed'[j].dst_rank
            /\ req_vec' = req_vec
            /\ is_batch_updating' = is_batch_updating
      ]_vars

\* An immediate update of a rectangle with two owners was made in an open
\* epoch with a request queued: two lock/unlock pairs, the queue and the flag
\* as before.
C15_Witness ==
    /\ call.fn \in ImmediateFns
    /\ Len(routed) = 2
    /\ NumEvents("lock") = 2
    /\ NumEvents("unlock") = 2
    /\ is_batch_updating = 1
    /\ \E d \in Ranks : req_vec[d] # << >>

\* Sub-block b of call a carries a's operation and leading dimension and
\* the address of its first element in a's source buffer.
CarriesSource(b, a) ==
    /\ b.op = a.op
    /\ b.src_buf_ld = a.src_buf_ld
    /\ b.src_buf = a.src_buf
          + ((b.row_start - a.row_start) * a.src_buf_ld + (b.col_start - a.col_start))
            * unit_size

C17_OneOrNone ==
    call.fn = "GTM_updateBlockToProcess" =>
        IF /\ InOwnedRegion(routed[1])
           /\ routed[1].row_num > 0
           /\ routed[1].col_num > 0
        THEN Len(Accumulates) = 1
        ELSE Len(Accumulates) = 0

\* The descriptors evs hands to transport calls of one kind.
DescriptorsOf(evs, type) ==
    { evs[i].odt : i \in { j \in 1 .. Len(evs) : evs[j].type = type } }

\* Every descriptor evs builds is ephemeral, is built before the accumulate
\* and released after it; nothing else is released.
EphemeralsReleased(evs) ==
    /\ DescriptorsOf(evs, "free") = DescriptorsOf(evs, "commit")
    /\ \A dt \in DescriptorsOf(evs, "commit") : dt.kind = "ephemeral"
    /\ \A i \in 1 .. Len(evs) : \A j \in 1 .. Len(evs) :
          /\ (evs[i].type = "commit" /\ evs[j].type = "acc") => i < j
          /\ (evs[i].type = "acc" /\ evs[j].type = "free") => i < j

\* C18: for every row_num, col_num, src_buf_ld and ld_local of a call the
\* updater accepts: with both counts at most the ceiling the destination
\* descriptor is the cached strided one and the source descriptor is (a) the
\* cached no-stride one when src_buf_ld = col_num, else (b) the cached
\* strided one when src_buf_ld = ld_local, else (c) one ephemeral descriptor
\* of stride src_buf_ld; with a count above the ceiling both descriptors are
\* ephemeral, of strides src_buf_ld and ld_local; every ephemeral descriptor
\* is released before the call returns and no cached one ever is.
C18_SelectionRule ==
    (call.fn = "GTM_updateBlockToProcess" /\ events # << >>) =>
        /\ Len(Accumulates) = 1
        /\ EphemeralsReleased(events)
        /\ IF /\ routed[1].row_num <= MPI_DT_SB_DIM_MAX
              /\ routed[1].col_num <= MPI_DT_SB_DIM_MAX
           THEN /\ Accumulates[1].tdt =
                      TypeVector(routed[1].row_num, routed[1].col_num, ld_local, "sb_stride")
                /\ IF routed[1].src_buf_ld = routed[1].col_num
                   THEN /\ Accumulates[1].odt =
                              TypeVector(routed[1].row_num, routed[1].col_num,
                                         routed[1].col_num, "sb_nostride")
                        /\ DescriptorsOf(events, "commit") = {}
                   ELSE IF routed[1].src_buf_ld = ld_local
                   THEN /\ Accumulates[1].odt = Accumulates[1].tdt
                        /\ DescriptorsOf(events, "commit") = {}
                   ELSE /\ Accumulates[1].odt =
                              TypeVector(routed[1].row_num, routed[1].col_num,
                                         routed[1].src_buf_ld, "ephemeral")
                        /\ DescriptorsOf(events, "commit") = {Accumulates[1].odt}
           ELSE /\ Accumulates[1].tdt =
                      TypeVector(routed[1].row_num, routed[1].col_num, ld_local, "ephemeral")
                /\ Accumulates[1].odt =
                      TypeVector(routed[1].row_num, routed[1].col_num,
                                 routed[1].src_buf_ld, "ephemeral")
                /\ DescriptorsOf(events, "commit") = {Accumulates[1].odt, Accumulates[1].tdt}

\* The locks held after the first i transport calls of evs: the indices of
\* the lock calls not yet followed by an unlock of the same rank.
OpenLocks(evs, i) ==
    { j \in 1 .. i :
        /\ evs[j].type = "lock"
        /\ \A k \in (j + 1) .. i : ~(evs[k].type = "unlock" /\ evs[k].rank = evs[j].rank) }

\* The ranks locked after the first i transport calls of evs.
LockedRanks(evs, i) == { evs[j].rank : j \in OpenLocks(evs, i) }

\* C19: in the transport calls of every public operation, every lock is
\* shared and taken while no lock is held, every remote write is issued while
\* exactly its destination rank is locked, every unlock releases the lock
\* held, and no lock is held when the operation returns.
C19_LockDiscipline ==
    /\ \A i \in 1 .. Len(events) :
          /\ Cardinality(OpenLocks(events, i)) <= 1
          /\ events[i].type = "lock" =>
                (events[i].op = MPI_LOCK_SHARED /\ OpenLocks(events, i - 1) = {})
          /\ events[i].type = "acc" =>
                (Cardinality(OpenLocks(events, i)) = 1
                 /\ LockedRanks(events, i) = {events[i].rank})
          /\ events[i].type = "unlock" =>
                LockedRanks(events, i - 1) = {events[i].rank}
    /\ OpenLocks(events, Len(events)) = {}

\* executeBatchUpdate has replayed two entries of one destination inside one
\* lock epoch.
C19_Witness ==
    /\ call.fn = "GTM_execBatchUpdate"
    /\ call.was_updating = 1
    /\ NumEvents("lock") = 1
    /\ NumEvents("acc") = 2
    /\ NumEvents("unlock") = 1
    /\ OpenLocks(events, 2) # {}

====
